---- MODULE Spec2Model ----
(***************************************************************************)
(* Model of crates/bevy_window/src/raw_handle.rs.                          *)
(*                                                                         *)
(* A window W is moved into WindowWrapper::new, which places it in a       *)
(* reference-counted cell (Arc<W>).  RawHandleWrapper holds a type-erased  *)
(* clone of that Arc; ThreadLockedRawWindowHandleWrapper holds a           *)
(* RawHandleWrapper obtained by cloning.  Every clone is one atomic        *)
(* increment of the cell's strong count; every drop is one atomic          *)
(* decrement, and the thread whose decrement saw the value 1 afterwards    *)
(* destroys the window (a second step of that thread).                     *)
(***************************************************************************)
EXTENDS Integers, FiniteSets, Sequences, TLC

\* ---------------------------------------------------------------- bounds
NumWindows == 2
NumThreads == 2
MaxHandles == 5

Windows == 1..NumWindows      \* the window values handed to WindowWrapper::new
Addrs   == 1..NumWindows      \* the Arc allocations
Threads == 1..NumThreads
Kinds   == {"window", "display"}

VARIABLES
    cell,          \* Arc allocation: strong count, state and the W it stores
    holder,        \* WindowWrapper whose `reference` points to the cell
    capsules,      \* number of live RawHandleWrapper whose `window` points to the cell
    accessors,     \* per thread, number of live ThreadLockedRawWindowHandleWrapper
    pc,            \* per thread: 0 = between calls, a = inside the drop that frees cell a
    ret,           \* the last call, whether the binding failed in it, what it returned
    wrapped,       \* history: the window that was moved into the cell
    destroyCount,  \* history: how many times the window of the cell was destroyed
    made,          \* history: per cell, calls of new / clone / get_handle
    drops,         \* history: per cell, completed drops of values referring to it
    coGated        \* history: per cell, accessors of two threads were live at once

vars == <<cell, holder, capsules, accessors, pc, ret, wrapped,
          destroyCount, made, drops, coGated>>

\* ------------------------------------------------------------ result values
NoVal       == [tag |-> "None", v |-> 0]
Ok(v)       == [tag |-> "Ok", v |-> v]
HandleError == [tag |-> "Err", v |-> 0]

Ret(op, a, fails, val) == [op |-> op, a |-> a, fails |-> fails, val |-> val]

\* ------------------------------------------------- the window binding (W)
\* The handle values a window reports; distinct per window and per kind.
StubHandle(kind, w) == IF kind = "window" THEN 10 * w + 1 ELSE 10 * w + 2

\* <W as HasWindowHandle>::window_handle / <W as HasDisplayHandle>::display_handle;
\* fails: the binding cannot produce the handle at this call.
BindingHandle(kind, w, fails) ==
    IF fails THEN HandleError ELSE Ok(StubHandle(kind, w))

\* --------------------------------------------------------------------- Arc
FreshCell == [strong |-> 0, state |-> "uninit", w |-> 0]

\* Arc::new
ArcNew(w) == [strong |-> 1, state |-> "live", w |-> w]

ArcCloneLost(c) == c
\* Arc::clone: one atomic increment of the strong count
ArcClone(c) == [c EXCEPT !.strong = @ + 1]

\* Arc::drop, first half: one atomic decrement of the strong count
ArcRelease(c) == [c EXCEPT !.strong = @ - 1]

ArcWasLastOffByOne(c) == c.strong <= 2
ArcWasLastNever(c) == FALSE
\* Arc::drop: the decrement returned 1, so this drop frees the window
ArcWasLast(c) == c.strong = 1

\* Values a read through a pointer to the cell can yield.  Reading a cell
\* whose window was destroyed is a use after free: any value may come back.
Pointee(a) ==
    IF cell[a].state = "live" THEN {cell[a].w} ELSE Windows \cup {0}

\* ----------------------------------------------------------------- helpers
RECURSIVE SumOver(_, _)
SumOver(f, S) ==
    IF S = {} THEN 0
    ELSE LET x == CHOOSE y \in S : TRUE IN f[x] + SumOver(f, S \ {x})

AccessorsOf(a) == SumOver([t \in Threads |-> accessors[t][a]], Threads)
Created        ==
    SumOver([a \in Addrs |-> (IF holder[a] = "none" THEN 0 ELSE 1)
                              + made[a].new + made[a].clone + made[a].get], Addrs)
Budget         == Created < MaxHandles
Idle(t)        == pc[t] = 0
SomeIdle       == \E t \in Threads : Idle(t)

\* -------------------------------------------------------------------- Init
Init ==
    /\ cell = [a \in Addrs |-> FreshCell]
    /\ holder = [a \in Addrs |-> "none"]
    /\ capsules = [a \in Addrs |-> 0]
    /\ accessors = [t \in Threads |-> [a \in Addrs |-> 0]]
    /\ pc = [t \in Threads |-> 0]
    /\ ret = Ret("init", 0, FALSE, NoVal)
    /\ wrapped = [a \in Addrs |-> 0]
    /\ destroyCount = [a \in Addrs |-> 0]
    /\ made = [a \in Addrs |-> [new |-> 0, clone |-> 0, get |-> 0]]
    /\ drops = [a \in Addrs |-> 0]
    /\ coGated = [a \in Addrs |-> FALSE]

\* ----------------------------------------------------------------- actions
\* WindowWrapper::new(window)
WindowWrapperNew(w) ==
    /\ SomeIdle
    /\ \A b \in Addrs : wrapped[b] # w
    /\ \E a \in Addrs :
        /\ cell[a].state = "uninit"
        /\ \A b \in Addrs : b < a => cell[b].state # "uninit"
        /\ cell' = [cell EXCEPT ![a] = ArcNew(w)]
        /\ holder' = [holder EXCEPT ![a] = "alive"]
        /\ wrapped' = [wrapped EXCEPT ![a] = w]
        /\ ret' = Ret("WindowWrapper::new", a, FALSE, NoVal)
    /\ UNCHANGED <<capsules, accessors, pc, destroyCount, made, drops, coGated>>

\* <WindowWrapper as Deref>::deref
Deref(a) ==
    /\ SomeIdle
    /\ holder[a] = "alive"
    /\ \E w \in Pointee(a) : ret' = Ret("deref", a, FALSE, Ok(w))
    /\ UNCHANGED <<cell, holder, capsules, accessors, pc, wrapped,
                   destroyCount, made, drops, coGated>>

NewResultProbing(a, fails) ==
    IF fails THEN HandleError ELSE Ok(a)
\* RawHandleWrapper::new: the returned value, Ok(RawHandleWrapper { .. }),
\* whether or not the binding could produce a handle now (fails); the
\* binding is not consulted.
NewResult(a, fails) == Ok(a)

\* RawHandleWrapper::new(&window)
RawHandleWrapperNew(a, fails) ==
    /\ SomeIdle
    /\ holder[a] = "alive"
    /\ LET r == NewResult(a, fails) IN
        IF r.tag = "Err"
        THEN /\ ret' = Ret("RawHandleWrapper::new", a, fails, r)
             /\ UNCHANGED <<cell, capsules, made>>
        ELSE /\ ret' = Ret("RawHandleWrapper::new", a, fails, r)
             /\ cell' = [cell EXCEPT ![a] = ArcClone(@)]
             /\ capsules' = [capsules EXCEPT ![a] = @ + 1]
             /\ made' = [made EXCEPT ![a].new = @ + 1]
    /\ UNCHANGED <<holder, accessors, pc, wrapped, destroyCount, drops,
                   coGated>>

RawHandleWrapperCloneShallow(a) ==
    /\ SomeIdle
    /\ capsules[a] > 0
    /\ capsules' = [capsules EXCEPT ![a] = @ + 1]
    /\ made' = [made EXCEPT ![a].clone = @ + 1]
    /\ ret' = Ret("clone", a, FALSE, Ok(a))
    /\ UNCHANGED <<cell, holder, accessors, pc, wrapped, destroyCount,
                   drops, coGated>>
\* <RawHandleWrapper as Clone>::clone (derived: clones the Arc field)
RawHandleWrapperClone(a) ==
    /\ SomeIdle
    /\ capsules[a] > 0
    /\ cell' = [cell EXCEPT ![a] = ArcClone(@)]
    /\ capsules' = [capsules EXCEPT ![a] = @ + 1]
    /\ made' = [made EXCEPT ![a].clone = @ + 1]
    /\ ret' = Ret("clone", a, FALSE, Ok(a))
    /\ UNCHANGED <<holder, accessors, pc, wrapped, destroyCount, drops,
                   coGated>>

GetHandleGuardExclusive(t, a) == capsules[a] > 0 /\ AccessorsOf(a) = 0
\* RawHandleWrapper::get_handle needs nothing but the capsule it is called on
GetHandleGuard(t, a) == capsules[a] > 0

\* History kept by get_handle: an accessor of another thread was live on
\* the same cell when this one was made.
CoGatedAfter(t, a) ==
    [coGated EXCEPT ![a] = @ \/ (\E u \in Threads \ {t} : accessors[u][a] > 0)]

GetHandleMove(t, a) ==
    /\ Idle(t)
    /\ GetHandleGuard(t, a)
    /\ accessors' = [accessors EXCEPT ![t][a] = @ + 1]
    /\ made' = [made EXCEPT ![a].get = @ + 1]
    /\ coGated' = CoGatedAfter(t, a)
    /\ ret' = Ret("get_handle", a, FALSE, Ok(a))
    /\ UNCHANGED <<cell, holder, capsules, pc, wrapped, destroyCount, drops>>
\* RawHandleWrapper::get_handle(&self): ThreadLockedRawWindowHandleWrapper(self.clone())
GetHandle(t, a) ==
    /\ Idle(t)
    /\ GetHandleGuard(t, a)
    /\ cell' = [cell EXCEPT ![a] = ArcClone(@)]
    /\ accessors' = [accessors EXCEPT ![t][a] = @ + 1]
    /\ made' = [made EXCEPT ![a].get = @ + 1]
    /\ coGated' = CoGatedAfter(t, a)
    /\ ret' = Ret("get_handle", a, FALSE, Ok(a))
    /\ UNCHANGED <<holder, capsules, pc, wrapped, destroyCount, drops>>

AccessorHandleOtherKind(kind, a, fails) ==
    {BindingHandle(CHOOSE k \in Kinds : k # kind, w, fails) : w \in Pointee(a)}
AccessorHandleSwallow(kind, a, fails) ==
    {IF fails THEN Ok(0) ELSE Ok(StubHandle(kind, w)) : w \in Pointee(a)}
\* self.0.window.window_handle() / self.0.window.display_handle()
AccessorHandle(kind, a, fails) == {BindingHandle(kind, w, fails) : w \in Pointee(a)}

\* <ThreadLockedRawWindowHandleWrapper as HasWindowHandle>::window_handle
WindowHandle(t, a, fails) ==
    /\ Idle(t)
    /\ accessors[t][a] > 0
    /\ \E r \in AccessorHandle("window", a, fails) :
          ret' = Ret("window_handle", a, fails, r)
    /\ UNCHANGED <<cell, holder, capsules, accessors, pc, wrapped,
                   destroyCount, made, drops, coGated>>

\* <ThreadLockedRawWindowHandleWrapper as HasDisplayHandle>::display_handle
DisplayHandle(t, a, fails) ==
    /\ Idle(t)
    /\ accessors[t][a] > 0
    /\ \E r \in AccessorHandle("display", a, fails) :
          ret' = Ret("display_handle", a, fails, r)
    /\ UNCHANGED <<cell, holder, capsules, accessors, pc, wrapped,
                   destroyCount, made, drops, coGated>>

\* Dropping the Arc field of a value: decrement, and enter the freeing half
\* of the drop when the decrement saw 1.
ArcDrop(t, a) ==
    /\ cell' = [cell EXCEPT ![a] = ArcRelease(@)]
    /\ IF ArcWasLast(cell[a])
       THEN /\ pc' = [pc EXCEPT ![t] = a]
            /\ UNCHANGED drops
       ELSE /\ drops' = [drops EXCEPT ![a] = @ + 1]
            /\ UNCHANGED pc
    /\ ret' = Ret("drop", 0, FALSE, NoVal)

DropWindowWrapperEager(t, a) ==
    /\ Idle(t)
    /\ holder[a] = "alive"
    /\ holder' = [holder EXCEPT ![a] = "dropped"]
    /\ cell' = [cell EXCEPT ![a] = ArcRelease(@)]
    /\ pc' = [pc EXCEPT ![t] = a]
    /\ ret' = Ret("drop", 0, FALSE, NoVal)
    /\ UNCHANGED <<capsules, accessors, wrapped, destroyCount, made,
                   drops, coGated>>
\* drop(WindowWrapper)
DropWindowWrapper(t, a) ==
    /\ Idle(t)
    /\ holder[a] = "alive"
    /\ holder' = [holder EXCEPT ![a] = "dropped"]
    /\ ArcDrop(t, a)
    /\ UNCHANGED <<capsules, accessors, wrapped, destroyCount, made, coGated>>

\* drop(RawHandleWrapper)
DropRawHandleWrapper(t, a) ==
    /\ Idle(t)
    /\ capsules[a] > 0
    /\ capsules' = [capsules EXCEPT ![a] = @ - 1]
    /\ ArcDrop(t, a)
    /\ UNCHANGED <<holder, accessors, wrapped, destroyCount, made, coGated>>

\* drop(ThreadLockedRawWindowHandleWrapper)
DropAccessor(t, a) ==
    /\ Idle(t)
    /\ accessors[t][a] > 0
    /\ accessors' = [accessors EXCEPT ![t][a] = @ - 1]
    /\ ArcDrop(t, a)
    /\ UNCHANGED <<holder, capsules, wrapped, destroyCount, made, coGated>>

\* Arc::drop, second half: the thread that released the last reference
\* destroys the window.
DropSlow(t) ==
    /\ pc[t] # 0
    /\ LET a == pc[t] IN
        /\ cell' = [cell EXCEPT ![a].state = "dropped"]
        /\ destroyCount' = [destroyCount EXCEPT ![a] = @ + 1]
        /\ drops' = [drops EXCEPT ![a] = @ + 1]
        /\ ret' = Ret("drop", 0, FALSE, NoVal)
    /\ pc' = [pc EXCEPT ![t] = 0]
    /\ UNCHANGED <<holder, capsules, accessors, wrapped, made, coGated>>

Next ==
    \/ Budget /\ \E w \in Windows : WindowWrapperNew(w)
    \/ \E a \in Addrs : Deref(a)
    \/ Budget /\ \E a \in Addrs, fails \in BOOLEAN : RawHandleWrapperNew(a, fails)
    \/ Budget /\ \E a \in Addrs : RawHandleWrapperClone(a)
    \/ Budget /\ \E t \in Threads, a \in Addrs : GetHandle(t, a)
    \/ \E t \in Threads, a \in Addrs, fails \in BOOLEAN : WindowHandle(t, a, fails)
    \/ \E t \in Threads, a \in Addrs, fails \in BOOLEAN : DisplayHandle(t, a, fails)
    \/ \E t \in Threads, a \in Addrs : DropWindowWrapper(t, a)
    \/ \E t \in Threads, a \in Addrs : DropRawHandleWrapper(t, a)
    \/ \E t \in Threads, a \in Addrs : DropAccessor(t, a)
    \/ \E t \in Threads : DropSlow(t)

Spec == Init /\ [][Next]_vars

\* ------------------------------------------------------------ observations
Alive(a)     == IF holder[a] = "alive" THEN 1 ELSE 0
LiveRefs(a)  == Alive(a) + capsules[a] + AccessorsOf(a)
Quiescent(a) == \A t \in Threads : pc[t] # a
AllDropped(a) ==
    /\ holder[a] = "dropped"
    /\ capsules[a] = 0
    /\ AccessorsOf(a) = 0
    /\ Quiescent(a)
KindOf(op)   == IF op = "window_handle" THEN "window" ELSE "display"
HandleOps    == {"window_handle", "display_handle"}
RefState     == <<cell, holder, capsules, accessors, pc, wrapped,
                  destroyCount, made, drops, coGated>>

\* ------------------------------------------------------------------ claims

\* C1: under every interleaving of clone, get_handle and drop, the window of
\* a cell is never destroyed while a WindowWrapper, RawHandleWrapper or
\* ThreadLockedRawWindowHandleWrapper referring to the cell still exists.
C1_NeverDestroyedWhileReferenced ==
    \A a \in Addrs :
        LiveRefs(a) > 0 => cell[a].state = "live" /\ destroyCount[a] = 0

\* A cell whose holder is gone and which two threads still reach, one through
\* an accessor, after other references to it were dropped.
C1_Witness ==
    \E a \in Addrs :
        /\ holder[a] = "dropped"
        /\ capsules[a] > 0
        /\ \E t \in Threads : accessors[t][a] > 0
        /\ drops[a] >= 2
        /\ cell[a].state = "live"

\* C2: once the WindowWrapper and every RawHandleWrapper derived from it
\* (those inside accessors included) have been dropped, the window has been
\* destroyed exactly once; it is never destroyed twice, and it is destroyed
\* by the drop that brought the strong count to zero and by no other.
C2_DestroyedExactlyOnce ==
    \A a \in Addrs :
        /\ destroyCount[a] <= 1
        /\ AllDropped(a) => destroyCount[a] = 1
        /\ destroyCount[a] = 1 => cell[a].strong = 0 /\ LiveRefs(a) = 0
        /\ (cell[a].strong = 0 /\ holder[a] # "none")
              => (destroyCount[a] = 1 \/ \E t \in Threads : pc[t] = a)

C2_Witness ==
    \E a \in Addrs :
        /\ AllDropped(a)
        /\ made[a].clone >= 1
        /\ drops[a] >= 3
        /\ destroyCount[a] = 1

\* C3: window_handle() and display_handle() of an accessor return exactly
\* what the window that was wrapped reports for the same call.
C3_PassThrough ==
    ret.op \in HandleOps =>
        ret.val = BindingHandle(KindOf(ret.op), wrapped[ret.a], ret.fails)

\* A handle obtained through a clone of the capsule, after the holder was
\* dropped, of a window stored at a cell whose address differs from its id.
C3_Witness ==
    /\ ret.op = "display_handle"
    /\ ret.val.tag = "Ok"
    /\ made[ret.a].clone >= 1
    /\ holder[ret.a] = "dropped"
    /\ wrapped[ret.a] # ret.a

\* C4: window_handle() and display_handle() return HandleError exactly when
\* the binding fails to produce that handle, return a value in every case,
\* and change nothing: counts, live values and the window.
C4_ErrorExactlyWhenBindingFails ==
    [][ret'.op \in HandleOps =>
          /\ ret'.val.tag \in {"Ok", "Err"}
          /\ (ret'.val = HandleError) <=> ret'.fails
          /\ UNCHANGED RefState]_vars

C4_Witness ==
    /\ ret.op = "window_handle"
    /\ ret.val = HandleError
    /\ ret.fails
    /\ LiveRefs(ret.a) >= 2

\* C5 as stated: when the binding cannot currently produce a handle,
\* RawHandleWrapper::new fails and hands the binding's HandleError to the
\* caller.
C5_Original ==
    (ret.op = "RawHandleWrapper::new" /\ ret.fails) => ret.val = HandleError

\* C5 amended: RawHandleWrapper::new clones the holder's shared reference
\* and returns Ok in every state, also when the binding cannot produce a
\* handle; it leaves the holder alone.
C5_NewAlwaysOk ==
    [][ret'.op = "RawHandleWrapper::new" =>
          /\ ret'.val = Ok(ret'.a)
          /\ cell'[ret'.a].strong = cell[ret'.a].strong + 1
          /\ capsules'[ret'.a] = capsules[ret'.a] + 1
          /\ holder' = holder]_vars

C5_Witness ==
    /\ ret.op = "RawHandleWrapper::new"
    /\ ret.fails
    /\ ret.val.tag = "Ok"
    /\ cell[ret.a].strong >= 2

OneCapsuleCloned(a) == made[a].new = 1 /\ made[a].get = 0

\* C7 as stated: the window is alive while fewer than N+1 drops have
\* occurred and destroyed at the (N+1)-th drop.
C7_Original ==
    \A a \in Addrs :
        OneCapsuleCloned(a) =>
            /\ drops[a] < made[a].clone + 1 => cell[a].state = "live"
            /\ drops[a] >= made[a].clone + 1 => destroyCount[a] = 1

\* C7 amended: holder, capsule and N clones are N+2 references; the window
\* is alive while fewer than N+2 drops have completed and has been destroyed,
\* once, when the (N+2)-th has.
C7_AliveUntilLastOfNPlus2 ==
    \A a \in Addrs :
        OneCapsuleCloned(a) =>
            /\ drops[a] <= made[a].clone + 2
            /\ drops[a] < made[a].clone + 2
                  => cell[a].state = "live" /\ destroyCount[a] = 0
            /\ drops[a] = made[a].clone + 2
                  => cell[a].state = "dropped" /\ destroyCount[a] = 1

C7_Witness ==
    \E a \in Addrs :
        /\ OneCapsuleCloned(a)
        /\ made[a].clone = 2
        /\ drops[a] = 4
        /\ destroyCount[a] = 1

\* C8 as stated: after accessors of two threads coexisted on a cell, once
\* the accessors and the holder are dropped the window has been destroyed
\* exactly once.
C8_Original ==
    \A a \in Addrs :
        (coGated[a] /\ AccessorsOf(a) = 0 /\ holder[a] = "dropped" /\ Quiescent(a))
            => destroyCount[a] = 1

\* C8 amended: get_handle on two threads leaves the count exact; the window
\* is not destroyed while a capsule is alive, and has been destroyed exactly
\* once when the accessors, the holder and the capsules are all dropped.
C8_ConcurrentGetHandle ==
    \A a \in Addrs :
        coGated[a] =>
            /\ cell[a].strong = LiveRefs(a)
            /\ destroyCount[a] <= 1
            /\ capsules[a] > 0 => destroyCount[a] = 0
            /\ AllDropped(a) => destroyCount[a] = 1

C8_Witness ==
    \E a \in Addrs :
        /\ coGated[a]
        /\ made[a].clone >= 1
        /\ made[a].get >= 2
        /\ AllDropped(a)
        /\ destroyCount[a] = 1

\* C9: get_handle can be called, by any thread that is between calls, in
\* every state in which a capsule exists, however many accessors exist.
C9_GetHandleAlwaysEnabled ==
    \A t \in Threads, a \in Addrs :
        (Idle(t) /\ capsules[a] > 0) => ENABLED GetHandle(t, a)

\* Accessors of one cell coexisting: two on one thread, one on another.
C9_Witness ==
    \E a \in Addrs, t, u \in Threads :
        /\ t # u
        /\ accessors[t][a] >= 2
        /\ accessors[u][a] >= 1
        /\ capsules[a] > 0

\* C10: the strong count of a cell is (1 if its WindowWrapper is alive) +
\* live RawHandleWrapper + live accessors; get_handle adds one and leaves
\* the capsules as they were; an accessor alone keeps the window alive.
C10_RefCount ==
    /\ [](\A a \in Addrs :
            /\ cell[a].strong = LiveRefs(a)
            /\ AccessorsOf(a) > 0 => cell[a].state = "live")
    /\ [][\A a \in Addrs : (ret'.op = "get_handle" /\ ret'.a = a) =>
            /\ capsules' = capsules
            /\ cell'[a].strong = cell[a].strong + 1
            /\ AccessorsOf(a)' = AccessorsOf(a) + 1]_vars

C10_Witness ==
    \E a \in Addrs :
        /\ holder[a] = "dropped"
        /\ capsules[a] = 0
        /\ AccessorsOf(a) = 1
        /\ cell[a].strong = 1
        /\ cell[a].state = "live"
====
